---------------------------- MODULE Spec2Model ----------------------------
(***************************************************************************)
(* git-slides: the presentation session state machine of src/src/cmd.rs,   *)
(* over the git gateway of src/src/git.rs and the dispatch of              *)
(* src/src/main.rs.                                                        *)
(*                                                                         *)
(* Every command is a fresh process: it builds a Cmd with an empty history *)
(* cache, runs one handler against the repository and the store file       *)
(* .git/git-slides, and exits.  One action of the model is one such        *)
(* process, from Cmd::new to exit.  A handler is an operator over a        *)
(* process record `p` holding the repository state it acts on (head, wt,   *)
(* stash, store), the Cmd's history cache, and what the process has        *)
(* printed and done so far; std::process::exit is `p.exit # Running`, and  *)
(* every later step of the handler is skipped once it is set.              *)
(*                                                                         *)
(* Strings are sequences of one-character strings, so that formatting and  *)
(* parsing the store file and rev-list's output are computed, not assumed. *)
(* Option<T> is a sequence of length at most one: None is <<>>, Some(x) is *)
(* <<x>>.                                                                  *)
(***************************************************************************)
EXTENDS Integers, Sequences, FiniteSets, TLC

(***************************************************************************)
(* Bounds of the model.                                                    *)
(***************************************************************************)
\* Longest main branch (commits on `main`) a repository of the model has.
MaxLen == 4
\* Longest side branch (commits on `dev` after the fork).
MaxSide == 1
\* Entries `git stash list` can hold before the user stops editing.
MaxStash == 1
\* Largest small offset given to next/previous.
MaxOffset == 2

\* Longest deck of the specification of long decks (SpecDeck).
MaxDeck == 8

\* usize::MAX, at the narrowest pointer width Rust has (16 bits).
UsizeMax == 65535

VARIABLES
    mainLen,    \* commits on branch main (0: the repository has no commit)
    sideLen,    \* commits on branch dev after it forks off main
    head,       \* HEAD: [sym |-> Option<branch>, at |-> commit when detached]
    wt,         \* working tree: "clean", "untracked" or "modified"
    stash,      \* number of entries of `git stash list`
    store,      \* Option<content of .git/git-slides>
    out,        \* the last process: command, arguments, the commit HEAD was
                \* on and whether a presentation was in progress when it
                \* started, exit code, output
    origin      \* history variable: Option<where HEAD was when the running
                \* (or just stopped) presentation was started, the ref `start` was given, and
                \* whether the user has left HEAD and the branches alone
                \* since>

vars == <<mainLen, sideLen, head, wt, stash, store, out, origin>>

None == <<>>
Some(x) == <<x>>
IsSome(o) == Len(o) = 1
Unwrap(o) == o[1]

(***************************************************************************)
(* Strings.                                                                *)
(***************************************************************************)
Str_main == <<"m", "a", "i", "n">>
Str_dev == <<"d", "e", "v">>
Str_bad == <<"a", "b", "c", "d", "e", "f", "g">>
Str_HEAD1 == <<"H", "E", "A", "D", "~">>
BranchNames == {Str_main, Str_dev}

HexDigits == <<"0", "1", "2", "3", "4", "5", "6", "7",
               "8", "9", "a", "b", "c", "d", "e", "f">>

\* The object id of commit c (%H), two hex digits standing for the forty.
Hash(c) == <<HexDigits[(c \div 16) + 1], HexDigits[(c % 16) + 1]>>

\* The first line of commit c's message (%s).
Title(c) == <<"S", HexDigits[(c % 16) + 1]>>

IsWhitespace(ch) == ch \in {" ", "\n", "\t", "\r"}

RECURSIVE TrimStart(_)
TrimStart(s) ==
    IF s # <<>> /\ IsWhitespace(Head(s)) THEN TrimStart(Tail(s)) ELSE s

RECURSIVE TrimEnd(_)
TrimEnd(s) ==
    IF s # <<>> /\ IsWhitespace(s[Len(s)])
    THEN TrimEnd(SubSeq(s, 1, Len(s) - 1))
    ELSE s

\* str::trim
Trim(s) == TrimEnd(TrimStart(s))

\* str::split_once: Option<(before, after)> around the first `ch`.
SplitOnce(s, ch) ==
    IF \E i \in 1..Len(s) : s[i] = ch
    THEN LET i == CHOOSE j \in 1..Len(s) :
                      s[j] = ch /\ \A k \in 1..(j - 1) : s[k] # ch
         IN Some(<<SubSeq(s, 1, i - 1), SubSeq(s, i + 1, Len(s))>>)
    ELSE None

\* Iterator::position counting from 1.
Position_one_based(seq, x) ==
    IF \E i \in 1..Len(seq) : seq[i] = x
    THEN Some(CHOOSE j \in 1..Len(seq) :
                  seq[j] = x /\ \A k \in 1..(j - 1) : seq[k] # x)
    ELSE None

\* Iterator::position: Option<0-based index> of the first element equal to x.
Position(seq, x) ==
    IF \E i \in 1..Len(seq) : seq[i] = x
    THEN Some((CHOOSE j \in 1..Len(seq) :
                   seq[j] = x /\ \A k \in 1..(j - 1) : seq[k] # x) - 1)
    ELSE None

Range(seq) == {seq[i] : i \in 1..Len(seq)}

Min(a, b) == IF a <= b THEN a ELSE b
Max(a, b) == IF a >= b THEN a ELSE b

(***************************************************************************)
(* The repository.  main is the chain 1..mainLen; dev adds the commits     *)
(* mainLen+1..mainLen+sideLen, forking off the middle of main, or, beside  *)
(* a main of one commit, as an orphan branch with a root of its own.  The  *)
(* tool never creates a commit; the user may delete dev, and its commits   *)
(* go.                                                                     *)
(***************************************************************************)
CommitsOf(m, s) == 1..(m + s)

\* The commit of main that dev forks off (0: dev is an orphan branch).
ForkAt(m) == IF m = 1 THEN 0 ELSE (m + 1) \div 2

\* First parent of commit c (0: c is a root).
Parent(c, m) ==
    IF c = 1 THEN 0
    ELSE IF c = m + 1 THEN ForkAt(m)
    ELSE c - 1

\* The commit a branch points at (0: the branch is unborn or does not exist).
BranchTip(b, m, s) ==
    IF b = Str_main THEN m
    ELSE IF b = Str_dev /\ s > 0 THEN m + s
    ELSE 0

\* The commit HEAD is on (0: HEAD is on an unborn branch).
HeadCommit(h, m, s) ==
    IF IsSome(h.sym) THEN BranchTip(Unwrap(h.sym), m, s) ELSE h.at

OnBranch(b) == [sym |-> Some(b), at |-> 0]
Detached(c) == [sym |-> None, at |-> c]

\* The commit with object id `hash` (0: no such object).
CommitOfHash(hash, m, s) ==
    IF \E c \in CommitsOf(m, s) : Hash(c) = hash
    THEN CHOOSE c \in CommitsOf(m, s) : Hash(c) = hash
    ELSE 0

\* git rev-parse <name>^{commit}: a branch name, HEAD~ or an object id
\* (0: none of them names a commit).
RevParse(name, h, m, s) ==
    IF name \in BranchNames /\ BranchTip(name, m, s) # 0
    THEN BranchTip(name, m, s)
    ELSE IF name = Str_HEAD1
    THEN (IF HeadCommit(h, m, s) = 0 THEN 0 ELSE Parent(HeadCommit(h, m, s), m))
    ELSE CommitOfHash(name, m, s)

\* git rev-list --first-parent --reverse <c>: oldest first, c last.
RECURSIVE RevList(_, _)
RevList(c, m) ==
    IF c = 0 THEN <<>> ELSE Append(RevList(Parent(c, m), m), c)


(***************************************************************************)
(* A process.                                                              *)
(***************************************************************************)
Running == 0 - 1
\* The exit code of a Rust panic.
PanicCode == 101

Msg(m, n) == [msg |-> m, n |-> n]

\* Cmd::new in a process started against the current repository state.
NewCmd ==
    [head |-> head, wt |-> wt, stash |-> stash, store |-> store,
     history |-> None, exit |-> Running,
     stdout |-> <<>>, stderr |-> <<>>, ops |-> <<>>]

Alive(p) == p.exit = Running

println(p, m, n) == [p EXCEPT !.stdout = Append(@, Msg(m, n))]
eprintln(p, m, n) == [p EXCEPT !.stderr = Append(@, Msg(m, n))]
\* std::process::exit(code)
exit(p, code) == [p EXCEPT !.exit = code]
\* A panic: the message goes to stderr and the process ends with code 101.
panic(p, m) == exit(eprintln(p, m, 0), PanicCode)
Did(p, op) == [p EXCEPT !.ops = Append(@, op)]

(***************************************************************************)
(* What the environment decides for one process: whether its git checkout *)
(* and git stash succeed when they can (a lock file, a conflict with the   *)
(* working tree), and whether the binary was built with overflow checks (a *)
(* debug build panics on usize overflow, a release build wraps).           *)
(***************************************************************************)
Env == [checkout : BOOLEAN, stash : BOOLEAN, overflow_checks : BOOLEAN]

\* usize addition: Option<sum>, None standing for the panic of a checked build.
UAdd(a, b, e) ==
    IF a + b <= UsizeMax THEN Some(a + b)
    ELSE IF e.overflow_checks THEN None
    ELSE Some((a + b) % (UsizeMax + 1))

\* usize subtraction, likewise.
USub(a, b, e) ==
    IF a >= b THEN Some(a - b)
    ELSE IF e.overflow_checks THEN None
    ELSE Some((a - b) % (UsizeMax + 1))

\* usize::saturating_sub
saturating_sub(a, b) == IF a >= b THEN a - b ELSE 0

\* usize::checked_sub
checked_sub(a, b) == IF a >= b THEN Some(a - b) ELSE None

(***************************************************************************)
(* The git gateway (src/src/git.rs).  cmd.rs calls current_commit_hash and *)
(* ref_to_commit_hash under the names git::current_commit and              *)
(* git::ref_to_commit, and reads a Commit as the pair (hash, title).       *)
(***************************************************************************)
\* git rev-parse --verify --quiet HEAD^{commit}
current_commit_hash(p) ==
    LET c == HeadCommit(p.head, mainLen, sideLen)
    IN IF c = 0 THEN None ELSE Some(Hash(c))

\* current_branch falling back, on a detached HEAD, to the branch the store
\* file records.
current_branch_or_recorded(p) ==
    LET Recorded(branch) == IF branch = <<>> THEN None ELSE Some(branch)
    IN IF IsSome(p.head.sym) \/ p.store = None
       THEN p.head.sym
       ELSE Recorded(Unwrap(SplitOnce(Trim(Unwrap(p.store)), ":"))[1])

\* git symbolic-ref --short --quiet HEAD
current_branch(p) == p.head.sym

\* git rev-parse --verify --quiet --end-of-options <ref>^{commit}
ref_to_commit_hash(p, ref_) ==
    LET c == RevParse(ref_, p.head, mainLen, sideLen)
    IN IF c = 0 THEN None ELSE Some(Hash(c))

\* One line of `git rev-list --format="%H %s" --no-commit-header`.
RevListLine(c) == Hash(c) \o <<" ">> \o Title(c)

\* The filter_map closure: split_once(' ') into (hash, title).
ParseLine(line) ==
    LET pieces == SplitOnce(line, " ")
    IN IF IsSome(pieces) THEN Some(Unwrap(pieces)) ELSE None

RECURSIVE FilterMapLines(_)
FilterMapLines(lines) ==
    IF lines = <<>> THEN <<>>
    ELSE ParseLine(Head(lines)) \o FilterMapLines(Tail(lines))

\* history_up_to_commit without --reverse: the newest commit first.
history_up_to_commit_newest_first(commit) ==
    LET c == CommitOfHash(commit, mainLen, sideLen)
        chain == RevList(c, mainLen)
    IN IF c # 0
       THEN FilterMapLines([i \in 1..Len(chain) |->
                               RevListLine(chain[Len(chain) + 1 - i])])
       ELSE <<>>

\* git rev-list --first-parent --reverse <commit>, parsed; empty when git
\* fails, as it does when the object is not in the repository.
history_up_to_commit(commit) ==
    LET c == CommitOfHash(commit, mainLen, sideLen)
        chain == RevList(c, mainLen)
    IN IF c # 0
       THEN FilterMapLines([i \in 1..Len(chain) |-> RevListLine(chain[i])])
       ELSE <<>>

\* What `git checkout <arg>` would make of HEAD: Option<head>.
CheckoutTarget(arg) ==
    IF arg \in BranchNames /\ BranchTip(arg, mainLen, sideLen) # 0
    THEN Some(OnBranch(arg))
    ELSE IF CommitOfHash(arg, mainLen, sideLen) # 0
    THEN Some(Detached(CommitOfHash(arg, mainLen, sideLen)))
    ELSE None

\* git checkout <commit>: TRUE iff git exits 0.
checkout_ok(arg, e) == e.checkout /\ IsSome(CheckoutTarget(arg))

\* The process after git::checkout(arg); uncommitted changes are carried over.
checkout(p, arg, e) ==
    IF checkout_ok(arg, e)
    THEN Did([p EXCEPT !.head = Unwrap(CheckoutTarget(arg))], "checkout:ok")
    ELSE Did(p, "checkout:err")

\* The clean test without --untracked-files=no: an untracked file is dirt.
is_working_directory_clean_all_files(p) == p.wt = "clean"

\* git status --untracked-files=no --porcelain prints nothing
is_working_directory_clean(p) == p.wt # "modified"

\* git stash: the tracked changes leave the working tree for the stash list.
stash_changes(p, e) ==
    IF e.stash
    THEN Did([p EXCEPT !.wt = "clean", !.stash = @ + 1], "stash:ok")
    ELSE Did(p, "stash:err")

(***************************************************************************)
(* Cmd (src/src/cmd.rs).  A method that returns a value returns the pair   *)
(* [p |-> the process after the call, ret |-> the value].                  *)
(***************************************************************************)
Ret(p, v) == [p |-> p, ret |-> v]

\* The store file exists (store_file().is_file()).
is_presentation_started(p) == IsSome(p.store)

\* ensure_presentation_is_started starting a presentation at HEAD when none
\* is in progress, instead of refusing.
ensure_presentation_is_started_or_start(p) ==
    IF ~is_presentation_started(p)
    THEN (IF IsSome(current_commit_hash(p))
          THEN Did([p EXCEPT !.store =
                        Some(Unwrap(current_commit_hash(p)) \o <<":">>
                             \o Unwrap(current_commit_hash(p)) \o <<"\n">>)],
                   "write")
          ELSE exit(eprintln(p, "You need to start by 'git slides start'.", 0), 1))
    ELSE p

\* ensure_presentation_is_started reporting the error with a success code.
ensure_presentation_is_started_exit0(p) ==
    IF ~is_presentation_started(p)
    THEN exit(eprintln(p, "You need to start by 'git slides start'.", 0), 0)
    ELSE p

ensure_presentation_is_started(p) ==
    IF ~is_presentation_started(p)
    THEN exit(eprintln(p, "You need to start by 'git slides start'.", 0), 1)
    ELSE p

\* format!("{branch}:{commit}\n")
FormatStore(branch, commit) == branch \o <<":">> \o commit \o <<"\n">>

\* fs::read_to_string(store_file); the callers have checked the file exists.
read_store_file(p) == Unwrap(p.store)

\* The part of "<branch>:<commit>" after the first ':'.
get_presentation_head_commit(p) ==
    Unwrap(SplitOnce(Trim(read_store_file(p)), ":"))[2]

\* get_initial_branch never finding a branch in the record.
get_initial_branch_none(p) == None

\* The part before the first ':', None when it is empty.
get_initial_branch(p) ==
    LET branch == Unwrap(SplitOnce(Trim(read_store_file(p)), ":"))[1]
    IN IF branch = <<>> THEN None ELSE Some(branch)

\* get_history without the test of the cache: computed at every call.
get_history_uncached(p, e) ==
    LET Computed(history) ==
            Ret(Did([p EXCEPT !.history = Some(history)], "rev-list"), history)
    IN Computed(history_up_to_commit(get_presentation_head_commit(p)))

\* The history of the presentation, computed once and then read from the cache.
get_history(p, e) ==
    LET Computed(history) ==
            Ret(Did([p EXCEPT !.history = Some(history)], "rev-list"), history)
    IN IF IsSome(p.history)
       THEN Ret(p, Unwrap(p.history))
       ELSE Computed(history_up_to_commit(get_presentation_head_commit(p)))

\* history.into_iter().map(|x| x.0).collect()
get_commits(p, e) ==
    LET Hashes(h) == Ret(h.p, [i \in 1..Len(h.ret) |-> h.ret[i][1]])
    IN Hashes(get_history(p, e))

\* Option<0-based index of HEAD's commit in the presentation>.
get_index_of_current_commit_checked(p, e) ==
    LET Find(c, commit) == Ret(c.p, Position(c.ret, commit))
        Current(commit) ==
            IF commit = None
            THEN Ret(p, None)
            ELSE Find(get_commits(p, e), Unwrap(commit))
    IN Current(current_commit_hash(p))

\* get_index_of_current_commit falling back to the first slide
\* (unwrap_or(0)) where the code reports the error and exits.
get_index_of_current_commit_or_first(p, e) ==
    LET Checked(i) == Ret(i.p, IF i.ret = None THEN 0 ELSE Unwrap(i.ret))
    IN Checked(get_index_of_current_commit_checked(p, e))

get_index_of_current_commit(p, e) ==
    LET Checked(i) ==
            IF i.ret = None
            THEN Ret(exit(eprintln(i.p,
                     "error: Current HEAD not part of presentation.", 0), 1), 0)
            ELSE Ret(i.p, Unwrap(i.ret))
    IN Checked(get_index_of_current_commit_checked(p, e))

\* A window of two slides after the current one.
SHOW_N_NEXT_two == 1 + 1

SHOW_N_PREVIOUS == 2
SHOW_N_NEXT == 3

\* One line of status: the marker of the current slide, past slides faint.
StatusLine(i, n) ==
    Msg(IF i = n THEN "* slide"
        ELSE IF i < n THEN "  slide (faint)"
        ELSE "  slide", i + 1)

\* One line of list: the marker of the current slide, no slide faint.
ListLine(i, n) == Msg(IF i = n THEN "* slide" ELSE "  slide", i + 1)

\* The for loop of status over display_from..=display_to.
RECURSIVE StatusLoop(_, _, _, _, _)
StatusLoop(p, i, display_to, n, history) ==
    IF i > display_to THEN p
    ELSE IF i + 1 > Len(history) THEN panic(p, "bounds have been checked")
    ELSE StatusLoop([p EXCEPT !.stdout = Append(@, StatusLine(i, n))],
                    i + 1, display_to, n, history)

\* "(Start)" whenever the window begins at the first slide.
ShowsStart_window_reaches(n) == saturating_sub(n, SHOW_N_PREVIOUS) = 0

\* Whether status prints "(Start)" above the window.
ShowsStart(n) == checked_sub(n, SHOW_N_PREVIOUS) = None

\* "(End)" whenever the window reaches the last slide.
ShowsEnd_window_reaches(n, last) == n + SHOW_N_NEXT >= last

\* Whether status prints "(End)" below the window.
ShowsEnd(n, last) == n + SHOW_N_NEXT > last

status(p0, e) ==
    LET Footer(p, n, last) ==
            IF Alive(p) /\ ShowsEnd(n, last) THEN println(p, "(End)", 0) ELSE p
        Window(p, history, n, display_from, display_to, last) ==
            Footer(StatusLoop(IF ShowsStart(n)
                              THEN println(p, "(Start)", 0)
                              ELSE p,
                              display_from, display_to, n, history),
                   n, last)
        Bounds(p, history, n, last) ==
            IF last = None
            THEN panic(p, "attempt to subtract with overflow")
            ELSE Window(p, history, n,
                        saturating_sub(n, SHOW_N_PREVIOUS),
                        Min(n + SHOW_N_NEXT, Unwrap(last)), Unwrap(last))
        Indexed(history, i) ==
            IF ~Alive(i.p) THEN i.p
            ELSE Bounds(i.p, history, i.ret, USub(Len(history), 1, e))
        Loaded(h) == Indexed(h.ret, get_index_of_current_commit(h.p, e))
        Ensured(p1) == IF ~Alive(p1) THEN p1 ELSE Loaded(get_history(p1, e))
    IN Ensured(ensure_presentation_is_started(p0))

list(p0, e) ==
    LET Indexed(history, i) ==
            IF ~Alive(i.p) THEN i.p
            ELSE [i.p EXCEPT !.stdout =
                      @ \o [k \in 1..Len(history) |-> ListLine(k - 1, i.ret)]]
        Loaded(h) == Indexed(h.ret, get_index_of_current_commit(h.p, e))
        Ensured(p1) == IF ~Alive(p1) THEN p1 ELSE Loaded(get_history(p1, e))
    IN Ensured(ensure_presentation_is_started(p0))

\* The range check of go without its upper bound.
BadSlideIndex_lower_only(n, len) == n < 1

\* The range check of go without its lower bound.
BadSlideIndex_upper_only(n, len) == n > len

\* The range check of go: slide n does not exist in a deck of `len` slides.
BadSlideIndex(n, len) == n < 1 \/ n > len

\* The slide number taken for the 0-based index: commits.get(n).
SlideIndex_one_based(n, e) == Some(n)

\* The 0-based index of slide n: Option<n - 1>, None for the panic.
SlideIndex(n, e) == USub(n, 1, e)

\* go not looking at the outcome of its checkout: `let _ = git::checkout`.
go_checkout_unchecked(p0, n, e) ==
    LET Stashed(p) ==
            IF e.stash
            THEN println(p, "Stashed uncommitted changes.", 0)
            ELSE eprintln(p, "error: Could not stash uncommitted changes.", 0)
        Clean(p, go_to) == status(checkout(p, go_to, e), e)
        Got(p, commits, i) ==
            IF i = None
            THEN panic(p, "attempt to subtract with overflow")
            ELSE IF Unwrap(i) + 1 > Len(commits)
            THEN panic(p, "bounds checked")
            ELSE Clean(IF ~is_working_directory_clean(p)
                       THEN Stashed(stash_changes(p, e))
                       ELSE p,
                       commits[Unwrap(i) + 1])
        Checked(p, commits) ==
            IF BadSlideIndex(n, Len(commits))
            THEN exit(eprintln(eprintln(p, "error: Bad slide index.", n),
                               "Possible values range from 1 to",
                               Len(commits)), 1)
            ELSE Got(p, commits, SlideIndex(n, e))
        Loaded(c) == Checked(c.p, c.ret)
        Ensured(p1) == IF ~Alive(p1) THEN p1 ELSE Loaded(get_commits(p1, e))
    IN Ensured(ensure_presentation_is_started(p0))

\* go asking for the current position first, as next and previous do.
go_from_slide(p0, n, e) ==
    LET CheckedOut(p, go_to) ==
            IF ~checkout_ok(go_to, e)
            THEN exit(eprintln(p, "error: Could not checkout.", 0), 1)
            ELSE status(p, e)
        Stashed(p) ==
            IF e.stash
            THEN println(p, "Stashed uncommitted changes.", 0)
            ELSE eprintln(p, "error: Could not stash uncommitted changes.", 0)
        Clean(p, go_to) == CheckedOut(checkout(p, go_to, e), go_to)
        Got(p, commits, i) ==
            IF i = None
            THEN panic(p, "attempt to subtract with overflow")
            ELSE IF Unwrap(i) + 1 > Len(commits)
            THEN panic(p, "bounds checked")
            ELSE Clean(IF ~is_working_directory_clean(p)
                       THEN Stashed(stash_changes(p, e))
                       ELSE p,
                       commits[Unwrap(i) + 1])
        Checked(p, commits) ==
            IF BadSlideIndex(n, Len(commits))
            THEN exit(eprintln(eprintln(p, "error: Bad slide index.", n),
                               "Possible values range from 1 to",
                               Len(commits)), 1)
            ELSE Got(p, commits, SlideIndex(n, e))
        Indexed(commits, i) ==
            IF ~Alive(i.p) THEN i.p ELSE Checked(i.p, commits)
        Loaded(c) == Indexed(c.ret, get_index_of_current_commit(c.p, e))
        Ensured(p1) == IF ~Alive(p1) THEN p1 ELSE Loaded(get_commits(p1, e))
    IN Ensured(ensure_presentation_is_started(p0))

\* go giving up when the stash fails.
go_stash_is_fatal(p0, n, e) ==
    LET CheckedOut(p, go_to) ==
            IF ~checkout_ok(go_to, e)
            THEN exit(eprintln(p, "error: Could not checkout.", 0), 1)
            ELSE status(p, e)
        Clean(p, go_to) == CheckedOut(checkout(p, go_to, e), go_to)
        Stashed(p, go_to) ==
            IF e.stash
            THEN Clean(println(p, "Stashed uncommitted changes.", 0), go_to)
            ELSE exit(eprintln(p,
                     "error: Could not stash uncommitted changes.", 0), 1)
        Got(p, commits, i) ==
            IF i = None
            THEN panic(p, "attempt to subtract with overflow")
            ELSE IF Unwrap(i) + 1 > Len(commits)
            THEN panic(p, "bounds checked")
            ELSE IF ~is_working_directory_clean(p)
            THEN Stashed(stash_changes(p, e), commits[Unwrap(i) + 1])
            ELSE Clean(p, commits[Unwrap(i) + 1])
        Checked(p, commits) ==
            IF BadSlideIndex(n, Len(commits))
            THEN exit(eprintln(eprintln(p, "error: Bad slide index.", n),
                               "Possible values range from 1 to",
                               Len(commits)), 1)
            ELSE Got(p, commits, SlideIndex(n, e))
        Loaded(c) == Checked(c.p, c.ret)
        Ensured(p1) == IF ~Alive(p1) THEN p1 ELSE Loaded(get_commits(p1, e))
    IN Ensured(ensure_presentation_is_started(p0))

go(p0, n, e) ==
    LET CheckedOut(p, go_to) ==
            IF ~checkout_ok(go_to, e)
            THEN exit(eprintln(p, "error: Could not checkout.", 0), 1)
            ELSE status(p, e)
        Stashed(p) ==
            IF e.stash
            THEN println(p, "Stashed uncommitted changes.", 0)
            ELSE eprintln(p, "error: Could not stash uncommitted changes.", 0)
        Clean(p, go_to) == CheckedOut(checkout(p, go_to, e), go_to)
        Got(p, commits, i) ==
            IF i = None
            THEN panic(p, "attempt to subtract with overflow")
            ELSE IF Unwrap(i) + 1 > Len(commits)
            THEN panic(p, "bounds checked")
            ELSE Clean(IF ~is_working_directory_clean(p)
                       THEN Stashed(stash_changes(p, e))
                       ELSE p,
                       commits[Unwrap(i) + 1])
        Checked(p, commits) ==
            IF BadSlideIndex(n, Len(commits))
            THEN exit(eprintln(eprintln(p, "error: Bad slide index.", n),
                               "Possible values range from 1 to",
                               Len(commits)), 1)
            ELSE Got(p, commits, SlideIndex(n, e))
        Loaded(c) == Checked(c.p, c.ret)
        Ensured(p1) == IF ~Alive(p1) THEN p1 ELSE Loaded(get_commits(p1, e))
    IN Ensured(ensure_presentation_is_started(p0))

\* The end test of next one slide early: n + 1 >= commits.len().
ReachedEnd_one_early(n, len) == n + 1 >= len

\* The end test of next with `>` for `>=`.
ReachedEnd_beyond(n, len) == n > len

\* next says the end is reached: the target is the last slide or beyond it.
ReachedEnd(n, len) == n >= len

\* The slide next asks go for.
NextTarget(n, len) == Min(n, len)

next(p0, offset, e) ==
    LET Target(p, commits, n) ==
            go(IF ReachedEnd(n, Len(commits))
               THEN println(p, "You've reached the end of the presentation.", 0)
               ELSE p,
               NextTarget(n, Len(commits)), e)
        Added(p, commits, n2) ==
            IF n2 = None
            THEN panic(p, "attempt to add with overflow")
            ELSE Target(p, commits, Unwrap(n2))
        Incremented(p, commits, n1) ==
            IF n1 = None
            THEN panic(p, "attempt to add with overflow")
            ELSE Added(p, commits, UAdd(Unwrap(n1), offset, e))
        Indexed(commits, i) ==
            IF ~Alive(i.p) THEN i.p
            ELSE Incremented(i.p, commits, UAdd(i.ret, 1, e))
        Loaded(c) == Indexed(c.ret, get_index_of_current_commit(c.p, e))
        Ensured(p1) == IF ~Alive(p1) THEN p1 ELSE Loaded(get_commits(p1, e))
    IN Ensured(ensure_presentation_is_started(p0))

\* The start test of previous with `<` for `<=`.
AtStart_below(n) == n < 1

\* previous says the start is reached: the target is the first slide.
AtStart(n) == n <= 1

\* previous without the clamp: self.go(n).
PreviousTarget_unclamped(n) == n

\* The slide previous asks go for.
PreviousTarget(n) == Max(n, 1)

\* n.saturating_sub(offset): the offset taken off the 0-based index.
PreviousSlideNumber_of_index(n1, offset) == saturating_sub(n1 - 1, offset)

\* (n + 1).saturating_sub(offset), n + 1 given
PreviousSlideNumber(n1, offset) == saturating_sub(n1, offset)

previous(p0, offset, e) ==
    LET Target(p, n) ==
            go(IF AtStart(n)
               THEN println(p, "You're at the start of the presentation.", 0)
               ELSE p,
               PreviousTarget(n), e)
        Incremented(p, n1) ==
            IF n1 = None
            THEN panic(p, "attempt to add with overflow")
            ELSE Target(p, PreviousSlideNumber(Unwrap(n1), offset))
        Indexed(i) ==
            IF ~Alive(i.p) THEN i.p
            ELSE Incremented(i.p, UAdd(i.ret, 1, e))
        Ensured(p1) ==
            IF ~Alive(p1) THEN p1
            ELSE Indexed(get_index_of_current_commit(p1, e))
    IN Ensured(ensure_presentation_is_started(p0))

\* current_branch().unwrap_or(main): a detached HEAD recorded as branch main.
unwrap_or_main(o) == IF IsSome(o) THEN Unwrap(o) ELSE Str_main

\* current_branch().unwrap_or_default()
unwrap_or_default(o) == IF IsSome(o) THEN Unwrap(o) ELSE <<>>

\* start putting the store file back as it was when its go(1) has failed.
start_rollback(p0, ref_, e) ==
    LET Undone(g) ==
            IF "checkout:err" \in Range(g.ops)
            THEN [g EXCEPT !.store = p0.store]
            ELSE g
        Written(p) ==
            Undone(go(println(p, "Presentation started at", 0), 1, e))
        Resolved(commit, branch) ==
            IF commit = None
            THEN exit(eprintln(p0, IF IsSome(ref_)
                                     THEN "error: Bad ref input."
                                     ELSE "error: No HEAD commit.", 0), 1)
            ELSE Written(Did([p0 EXCEPT !.store =
                                  Some(FormatStore(branch, Unwrap(commit)))],
                             "write"))
    IN IF ~is_working_directory_clean(p0)
       THEN exit(eprintln(p0,
                "error: Working directory contains uncommitted changes.", 0), 1)
       ELSE Resolved(IF IsSome(ref_)
                     THEN ref_to_commit_hash(p0, Unwrap(ref_))
                     ELSE current_commit_hash(p0),
                     IF IsSome(current_branch(p0))
                     THEN Unwrap(current_branch(p0)) ELSE <<>>)

\* A presentation starting on its second slide.
FirstSlide_second == 1 + 1

\* The slide a presentation starts on: self.go(1).
FirstSlide == 1

start(p0, ref_, e) ==
    LET Written(p) ==
            go(println(p, "Presentation started at", 0), FirstSlide, e)
        Resolved(commit, branch) ==
            IF commit = None
            THEN exit(eprintln(p0, IF IsSome(ref_)
                                     THEN "error: Bad ref input."
                                     ELSE "error: No HEAD commit.", 0), 1)
            ELSE Written(Did([p0 EXCEPT !.store =
                                  Some(FormatStore(branch, Unwrap(commit)))],
                             "write"))
    IN IF ~is_working_directory_clean(p0)
       THEN exit(eprintln(p0,
                "error: Working directory contains uncommitted changes.", 0), 1)
       ELSE Resolved(IF IsSome(ref_)
                     THEN ref_to_commit_hash(p0, Unwrap(ref_))
                     ELSE current_commit_hash(p0),
                     unwrap_or_default(current_branch(p0)))

\* stop keeping the record when its checkout has failed.
stop_transactional(p0, e) ==
    LET Restored(p) ==
            IF "checkout:err" \in Range(p.ops)
            THEN exit(eprintln(p, "error: Could not checkout.", 0), 1)
            ELSE Did([p EXCEPT !.store = None], "remove")
        Back(p, initial_branch) ==
            IF IsSome(initial_branch)
            THEN checkout(println(p, "Going back to branch", 0),
                          Unwrap(initial_branch), e)
            ELSE checkout(println(p, "Going back to commit", 0),
                          get_presentation_head_commit(p), e)
        Ensured(p1) ==
            IF ~Alive(p1) THEN p1
            ELSE Restored(Back(println(p1, "Presentation stopped.", 0),
                               get_initial_branch(p1)))
    IN Ensured(ensure_presentation_is_started(p0))

stop(p0, e) ==
    LET Restored(p) == Did([p EXCEPT !.store = None], "remove")
        Back(p, initial_branch) ==
            IF IsSome(initial_branch)
            THEN checkout(println(p, "Going back to branch", 0),
                          Unwrap(initial_branch), e)
            ELSE checkout(println(p, "Going back to commit", 0),
                          get_presentation_head_commit(p), e)
        Ensured(p1) ==
            IF ~Alive(p1) THEN p1
            ELSE Restored(Back(println(p1, "Presentation stopped.", 0),
                               get_initial_branch(p1)))
    IN Ensured(ensure_presentation_is_started(p0))

\* help()
help(p) == println(p, "usage", 0)

(***************************************************************************)
(* The state machine: one action per command line (main in                 *)
(* src/src/main.rs), and the user's own git commands between two of them.  *)
(***************************************************************************)
\* What the shell sees of a process that has ended; main returning is exit 0.
Finished(p, cmd, n, ref_) ==
    [cmd |-> cmd, n |-> n, ref |-> ref_,
     from |-> HeadCommit(head, mainLen, sideLen),
     started |-> is_presentation_started(NewCmd),
     exit |-> IF Alive(p) THEN 0 ELSE p.exit,
     stdout |-> p.stdout, stderr |-> p.stderr, ops |-> p.ops]

NoProcess ==
    [cmd |-> "git", n |-> 0, ref |-> None, from |-> 0, started |-> FALSE,
     exit |-> 0,
     stdout |-> <<>>, stderr |-> <<>>, ops |-> <<>>]

\* No process is running and the output of the last one has been read.
Idle == out = NoProcess

\* A process is started at the prompt and has ended: the repository and the
\* store file are as it left them.
Ends(p, cmd, n, ref_) ==
    /\ Idle
    /\ head' = p.head
    /\ wt' = p.wt
    /\ stash' = p.stash
    /\ store' = p.store
    /\ out' = Finished(p, cmd, n, ref_)
    /\ origin' = IF p.store = None THEN origin
                 ELSE IF p.store # store \/ "write" \in Range(p.ops)
                 THEN Some([head |-> head, ref |-> ref_, untouched |-> TRUE])
                 ELSE origin
    /\ UNCHANGED <<mainLen, sideLen>>

\* The refs given to `start`: none, a branch, HEAD~, or one that names nothing.
Refs == {None, Some(Str_main), Some(Str_dev), Some(Str_HEAD1), Some(Str_bad)}

\* The slide numbers given to `go`.
SlideNumbers == 0..(MaxLen + 1)

\* The offsets given to `next` and `previous`.
Offsets == 0..MaxOffset \cup {UsizeMax}

\* The environments that differ in something the process can observe: the
\* outcome of a git command it may run (co: checkout, st: stash) and, when its
\* arithmetic may overflow (ov), the build; the rest is fixed.
EnvOf(co, st, ov) ==
    {e \in Env : /\ ~co => e.checkout
                 /\ ~st => e.stash
                 /\ ~ov => e.overflow_checks}

\* The process is started on a working tree with uncommitted tracked changes.
Dirty == wt = "modified"

\* The process is started in a presentation.
Started == IsSome(store)

\* index + 1 + offset may exceed usize::MAX for some index of a deck.
MayOverflow(offset) == MaxLen + MaxSide + 1 + offset > UsizeMax

\* A repository after `git init --initial-branch=main` and some commits.
Init ==
    /\ mainLen \in {0, 1, MaxLen}
    /\ sideLen = IF mainLen = 0 THEN 0 ELSE MaxSide
    /\ head = OnBranch(Str_main)
    /\ wt = "clean"
    /\ stash = 0
    /\ store = None
    /\ out = NoProcess
    /\ origin = None

\* git-slides start [<ref>]
Start ==
    \E ref_ \in Refs, e \in EnvOf(TRUE, FALSE, FALSE) :
        Ends(start(NewCmd, ref_, e), "start", 0, ref_)

\* git-slides stop
Stop == \E e \in EnvOf(Started, FALSE, FALSE) : Ends(stop(NewCmd, e), "stop", 0, None)

\* git-slides next [<n>]
NextSlide ==
    \E offset \in Offsets :
      \E e \in EnvOf(Started, Started /\ Dirty, MayOverflow(offset)) :
        Ends(next(NewCmd, offset, e), "next", offset, None)

\* git-slides previous [<n>]
PreviousSlide ==
    \E offset \in Offsets, e \in EnvOf(Started, Started /\ Dirty, FALSE) :
        Ends(previous(NewCmd, offset, e), "previous", offset, None)

\* git-slides go <n>
Go ==
    \E n \in SlideNumbers,
       e \in EnvOf(Started, Started /\ Dirty, FALSE) :
        Ends(go(NewCmd, n, e), "go", n, None)

\* A status that stashes the tracked changes of the working tree before it
\* prints, as go does.
Status_after_stash ==
    \E e \in EnvOf(FALSE, FALSE, FALSE) :
        Ends(status(IF is_working_directory_clean(NewCmd)
                    THEN NewCmd
                    ELSE stash_changes(NewCmd, e), e), "status", 0, None)

\* git-slides status
Status == \E e \in EnvOf(FALSE, FALSE, FALSE) : Ends(status(NewCmd, e), "status", 0, None)

\* git-slides list
List == \E e \in EnvOf(FALSE, FALSE, FALSE) : Ends(list(NewCmd, e), "list", 0, None)

\* git-slides, with no argument: main falls through to help().
NoArgs == Ends(help(NewCmd), "", 0, None)

\* The user has moved HEAD or changed a branch during the presentation.
Touched ==
    IF IsSome(origin)
    THEN Some([Unwrap(origin) EXCEPT !.untouched = FALSE])
    ELSE None

\* The user runs `git checkout <branch or commit>` between two commands.
UserCheckout ==
    \E c \in CommitsOf(mainLen, sideLen), b \in BranchNames \cup {<<>>} :
        /\ Idle
        /\ b # <<>> => BranchTip(b, mainLen, sideLen) = c
        /\ head' = IF b # <<>> THEN OnBranch(b) ELSE Detached(c)
        /\ origin' = Touched
        /\ UNCHANGED <<mainLen, sideLen, wt, stash, store, out>>

\* The user, in a clean working tree, edits a tracked file (and `git add`s
\* it) or drops a new, untracked file.
UserEdit ==
    \E kind \in {"untracked", "modified"} :
        /\ Idle
        /\ stash < MaxStash
        /\ wt = "clean"
        /\ wt' = kind
        /\ UNCHANGED <<mainLen, sideLen, head, stash, store, out, origin>>

\* The user deletes branch dev (`git branch -D dev`) and prunes: the commits
\* only dev reached are no longer in the repository.
UserDeleteBranch ==
    /\ Idle
    /\ sideLen > 0
    /\ HeadCommit(head, mainLen, sideLen) <= mainLen
    /\ sideLen' = 0
    /\ origin' = Touched
    /\ UNCHANGED <<mainLen, head, wt, stash, store, out>>

\* The caller has read the exit code and the output of the process that ended
\* (`run` in the tests returns its Output): the next command can be given.
Collect ==
    /\ ~Idle
    /\ out' = NoProcess
    /\ origin' = IF store = None THEN None ELSE origin
    /\ UNCHANGED <<mainLen, sideLen, head, wt, stash, store>>

Next ==
    \/ Start
    \/ Stop
    \/ NextSlide
    \/ PreviousSlide
    \/ Go
    \/ Status
    \/ List
    \/ NoArgs
    \/ UserCheckout
    \/ UserEdit
    \/ UserDeleteBranch
    \/ Collect

Spec == Init /\ [][Next]_vars

(***************************************************************************)
(* Properties of the commands.  A property of one command reads the state  *)
(* before the process (the unprimed variables) and the state and the       *)
(* output after it (the primed ones).                                      *)
(***************************************************************************)
\* The commit HEAD is on.
HeadAt == HeadCommit(head, mainLen, sideLen)

\* The deck of the presentation in progress: the first-parent chain of the
\* commit the store file records, oldest first; empty when no presentation
\* is in progress or that commit is no longer in the repository.
Deck ==
    IF IsSome(store)
    THEN RevList(CommitOfHash(get_presentation_head_commit(NewCmd),
                              mainLen, sideLen), mainLen)
    ELSE <<>>

\* Commit c is a slide of the deck.
IsSlide(c) == \E i \in 1..Len(Deck) : Deck[i] = c

\* The 0-indexed position in the deck of commit c, a slide.
IndexOf(c) == CHOOSE k \in 0..(Len(Deck) - 1) : Deck[k + 1] = c

\* The 0-indexed current position, HEAD being on a slide.
K == IndexOf(HeadAt)

EndNotice == "You've reached the end of the presentation."
StartNotice == "You're at the start of the presentation."
NeedStart == "You need to start by 'git slides start'."
NotInDeck == "error: Current HEAD not part of presentation."

\* Process o printed message m on its standard output.
Printed(o, m) == \E i \in 1..Len(o.stdout) : o.stdout[i].msg = m

\* The lines of `lines` other than message m.
Without(lines, m) == SelectSeq(lines, LAMBDA x : x.msg # m)

\* The slides a status output marks as current.
Marked(o) ==
    {o.stdout[i].n : i \in {j \in 1..Len(o.stdout) :
                                o.stdout[j].msg = "* slide"}}

\* The step is a process that did what `go n` does from the same state, in
\* some environment, but for one more line `notice` on its standard output.
SameAsGo(n, notice) ==
    \E e \in Env :
        LET g == go(NewCmd, n, e)
        IN /\ head' = g.head
           /\ wt' = g.wt
           /\ stash' = g.stash
           /\ store' = g.store
           /\ out'.exit = (IF Alive(g) THEN 0 ELSE g.exit)
           /\ Without(out'.stdout, notice) = g.stdout
           /\ out'.stderr = g.stderr
           /\ out'.ops = g.ops

\* The process changed nothing of the repository and the store file.
NothingChanged == UNCHANGED <<head, wt, stash, store, mainLen, sideLen>>

\* C1: go(k), 1 <= k <= L, run in a presentation and with its checkout
\* succeeding, leaves HEAD on the k-th slide of the deck (0-indexed position
\* k - 1), and the status it prints marks that slide and no other.
C1_GoLandsOnSlide ==
    (/\ out.cmd = "go"
     /\ IsSome(store)
     /\ out.n \in 1..Len(Deck)
     /\ "checkout:ok" \in Range(out.ops))
    => /\ HeadAt = Deck[out.n]
       /\ IndexOf(HeadAt) = out.n - 1
       /\ Marked(out) = {out.n}
       /\ out.exit = 0

\* A go to a slide in the middle of the deck, from another slide.
C1_Witness ==
    /\ out.cmd = "go"
    /\ out.n > 1
    /\ out.n < Len(Deck)
    /\ "checkout:ok" \in Range(out.ops)
    /\ out.from # HeadAt
    /\ HeadAt = Deck[out.n]
    /\ Marked(out) = {out.n}

\* The commit `start` resolves its argument to, from the state it starts in.
StartTarget(ref_) ==
    IF IsSome(ref_)
    THEN RevParse(Unwrap(ref_), head, mainLen, sideLen)
    ELSE HeadAt

\* C2: a start that succeeds leaves HEAD on slide 1 of the deck that ends at
\* the commit its ref resolves to (at the commit HEAD was on when no ref is
\* given), whatever commit HEAD was on before.
C2_StartLandsOnFirstSlide ==
    [][(out'.cmd = "start" /\ out'.exit = 0)
       => /\ StartTarget(out'.ref) # 0
          /\ head' = Detached(RevList(StartTarget(out'.ref), mainLen)[1])
          /\ Marked(out') = {1}]_vars

\* A start on a ref, from a commit that is not the first slide of its deck,
\* of a deck of more than one slide.
C2_Witness ==
    /\ out.cmd = "start"
    /\ out.exit = 0
    /\ IsSome(out.ref)
    /\ Len(Deck) > 1
    /\ out.from # Deck[1]
    /\ out.from # Deck[Len(Deck)]
    /\ HeadAt = Deck[1]

\* HEAD after the step is where the presentation was started from: on the
\* branch of that moment, or, started on a detached HEAD without a ref, on
\* the commit of that moment.
Restored ==
    LET o == Unwrap(origin)
    IN IF IsSome(o.head.sym)
       THEN head' = OnBranch(Unwrap(o.head.sym))
       ELSE o.ref = None => head' = Detached(o.head.at)

\* C3, as stated: after start, any go/next/previous/status/list and then
\* stop, with no branch change made outside the tool, HEAD is back on the
\* branch that was current when start ran, or, when start ran on a detached
\* HEAD without a ref, on the commit recorded at start.
C3_StopRestoresOrigin ==
    [][(/\ out'.cmd = "stop"
        /\ IsSome(origin)
        /\ Unwrap(origin).untouched)
       => Restored]_vars

\* C3, amended: the same, of a stop whose checkout succeeds; stop does not
\* look at the outcome of its checkout, deletes the record and ends with
\* code 0 either way.
C3_StopRestoresOriginWhenCheckoutSucceeds ==
    [][(/\ out'.cmd = "stop"
        /\ IsSome(origin)
        /\ "checkout:ok" \in Range(out'.ops))
       => Restored /\ out'.exit = 0 /\ store' = None]_vars

\* A stop that has brought HEAD from a slide back to the branch.
C3_Witness ==
    /\ out.cmd = "stop"
    /\ out.exit = 0
    /\ "checkout:ok" \in Range(out.ops)
    /\ store = None
    /\ IsSome(head.sym)
    /\ out.from # HeadAt

\* The step is a `next` run in a presentation with HEAD on a slide.
NextFromSlide == out'.cmd = "next" /\ IsSome(store) /\ IsSlide(HeadAt)

\* The step is a `previous` run in a presentation with HEAD on a slide.
PreviousFromSlide == out'.cmd = "previous" /\ IsSome(store) /\ IsSlide(HeadAt)

\* The 1-indexed slide next(offset) asks for, not clamped, as an integer.
Unclamped == K + 1 + out'.n

\* C4, as stated: next(offset) from 0-indexed position k in a deck of L
\* slides behaves exactly as go(min(k + 1 + offset, L)), and at the last
\* slide it stays on the last slide with exit code 0.
C4_NextIsGoMin ==
    [][NextFromSlide
       => /\ SameAsGo(Min(Unclamped, Len(Deck)), EndNotice)
          /\ (K + 1 = Len(Deck) /\ "checkout:ok" \in Range(out'.ops))
             => head' = Detached(Deck[Len(Deck)]) /\ out'.exit = 0]_vars

\* C4 where k + 1 + offset fits a usize: there next is go(min(k + 1 +
\* offset, L)).
C4_NextIsGoMinWithoutOverflow ==
    [][(NextFromSlide /\ Unclamped <= UsizeMax)
       => /\ SameAsGo(Min(Unclamped, Len(Deck)), EndNotice)
          /\ (K + 1 = Len(Deck) /\ "checkout:ok" \in Range(out'.ops))
             => head' = Detached(Deck[Len(Deck)]) /\ out'.exit = 0]_vars

\* A next with offset usize::MAX, built without overflow checks, that has
\* moved HEAD one slide back and printed no notice.
C4_Witness ==
    /\ out.cmd = "next"
    /\ out.n = UsizeMax
    /\ out.exit = 0
    /\ "checkout:ok" \in Range(out.ops)
    /\ IsSlide(out.from)
    /\ IndexOf(HeadAt) = IndexOf(out.from) - 1
    /\ ~Printed(out, EndNotice)

\* C5, as stated, for the offsets that do not overflow: next(offset) prints
\* the end notice if and only if the unclamped target k + 1 + offset is
\* strictly greater than L.
C5_EndNoticeIffBeyondEnd ==
    [][(NextFromSlide /\ Unclamped <= UsizeMax)
       => (Printed(out', EndNotice) <=> Unclamped > Len(Deck))]_vars

\* C5, amended: next(offset) prints the end notice if and only if the
\* target k + 1 + offset is at least L and fits a usize, so also when it is
\* the last slide itself; a sum that overflows prints none (the checked
\* build panics, the unchecked one wraps to a value below L).
C5_EndNoticeIffTargetReachesEnd ==
    [][NextFromSlide
       => (Printed(out', EndNotice)
           <=> (Unclamped >= Len(Deck) /\ Unclamped <= UsizeMax))]_vars

\* A next of one slide, from the slide before the last one, that has landed
\* on the last slide and printed the notice.
C5_Witness ==
    /\ out.cmd = "next"
    /\ out.n = 1
    /\ Len(Deck) > 1
    /\ out.from = Deck[Len(Deck) - 1]
    /\ HeadAt = Deck[Len(Deck)]
    /\ Printed(out, EndNotice)
    /\ out.exit = 0

\* C6: previous(offset) from 0-indexed position k behaves exactly as
\* go(max(k + 1 - offset, 1)), the subtraction saturating at 0: it never asks
\* for a slide below 1 and never fails with a bad slide index, however
\* large the offset.
C6_PreviousIsGoMax ==
    [][PreviousFromSlide
       => /\ SameAsGo(Max(saturating_sub(K + 1, out'.n), 1), StartNotice)
          /\ \A i \in 1..Len(out'.stderr) :
                 out'.stderr[i].msg # "error: Bad slide index."
          /\ out'.exit # PanicCode
          /\ "checkout:ok" \in Range(out'.ops)
             => head' = Detached(Deck[Max(K + 1 - out'.n, 1)])]_vars

\* A previous with offset usize::MAX, from a slide after the first, that has
\* landed on slide 1.
C6_Witness ==
    /\ out.cmd = "previous"
    /\ out.n = UsizeMax
    /\ out.exit = 0
    /\ IsSlide(out.from)
    /\ IndexOf(out.from) > 0
    /\ HeadAt = Deck[1]

\* C7: previous(offset) from 0-indexed position k prints the start notice if
\* and only if k + 1 - offset <= 1, which is exactly when it lands on slide 1
\* (also when it was on slide 1 already).
C7_StartNoticeIffFirstSlide ==
    [][PreviousFromSlide
       => /\ Printed(out', StartNotice) <=> K + 1 - out'.n <= 1
          /\ "checkout:ok" \in Range(out'.ops)
             => (Printed(out', StartNotice) <=> head' = Detached(Deck[1]))]_vars

\* A previous from slide 1 that has stayed there and printed the notice.
C7_Witness ==
    /\ out.cmd = "previous"
    /\ out.n = 1
    /\ Len(Deck) > 1
    /\ out.from = Deck[1]
    /\ HeadAt = Deck[1]
    /\ Printed(out, StartNotice)
    /\ out.exit = 0

\* The commands that need a presentation in progress.
NeedsPresentation == {"stop", "next", "previous", "go", "status", "list"}

\* C8: with no store file, each of stop, next, previous, go <n>, status and
\* list exits with code 1 and the 'You need to start' message, and does no
\* checkout, no stash and no write of the store file.
C8_NotStartedIsRefused ==
    [][(out'.cmd \in NeedsPresentation /\ store = None)
       => /\ out'.exit = 1
          /\ out'.stderr = <<Msg(NeedStart, 0)>>
          /\ out'.stdout = <<>>
          /\ out'.ops = <<>>
          /\ NothingChanged]_vars

\* A go refused for want of a presentation, on a dirty working tree.
C8_Witness ==
    /\ out.cmd = "go"
    /\ out.n = 1
    /\ store = None
    /\ wt = "modified"
    /\ mainLen > 1
    /\ out.exit = 1
    /\ out.stderr = <<Msg(NeedStart, 0)>>

\* C9: in a presentation with a deck of L slides, go(n) with n = 0 or n > L
\* exits with code 1, reports the range 1..L, and leaves HEAD, the store
\* file and the stash as they were: the range check comes before any stash
\* or checkout.
C9_BadIndexIsRefused ==
    [][(/\ out'.cmd = "go"
        /\ IsSome(store)
        /\ (out'.n = 0 \/ out'.n > Len(Deck)))
       => /\ out'.exit = 1
          /\ out'.stderr = <<Msg("error: Bad slide index.", out'.n),
                             Msg("Possible values range from 1 to", Len(Deck))>>
          /\ Range(out'.ops) \subseteq {"rev-list"}
          /\ NothingChanged]_vars

\* A go(0) refused on a dirty working tree, in a deck of several slides.
C9_Witness ==
    /\ out.cmd = "go"
    /\ out.n = 0
    /\ Len(Deck) > 1
    /\ wt = "modified"
    /\ out.exit = 1
    /\ Len(out.stderr) = 2

\* The commands that need HEAD on a slide.
NeedsPosition == {"next", "previous", "status", "list"}

\* C10: in a presentation where HEAD's commit is not a slide of the deck,
\* each of next, previous, status and list exits with code 1 and 'Current
\* HEAD not part of presentation', and changes neither HEAD, the store file
\* nor the stash.
C10_OutsideDeckIsRefused ==
    [][(/\ out'.cmd \in NeedsPosition
        /\ IsSome(store)
        /\ ~IsSlide(HeadAt))
       => /\ out'.exit = 1
          /\ out'.stderr = <<Msg(NotInDeck, 0)>>
          /\ out'.stdout = <<>>
          /\ Range(out'.ops) \subseteq {"rev-list"}
          /\ NothingChanged]_vars

\* A next refused on a dirty working tree, HEAD being on a commit outside a
\* deck of several slides.
C10_Witness ==
    /\ out.cmd = "next"
    /\ IsSome(store)
    /\ Len(Deck) > 1
    /\ ~IsSlide(HeadAt)
    /\ wt = "modified"
    /\ out.exit = 1
    /\ out.stderr = <<Msg(NotInDeck, 0)>>

\* The step is a `start` that fails a check: tracked uncommitted changes, a
\* ref that names no commit, or no ref on an unborn HEAD.
StartRefused ==
    /\ out'.cmd = "start"
    /\ (wt = "modified" \/ StartTarget(out'.ref) = 0)

\* C11: a start that fails a precondition or resolution step (tracked
\* uncommitted changes, ref not resolvable, no ref with an unborn HEAD) exits
\* with code 1 and changes nothing: no store file is created or replaced,
\* HEAD is not moved, nothing is stashed; untracked files alone do not make
\* start fail.
C11_RefusedStartChangesNothing ==
    [][/\ StartRefused
          => /\ out'.exit = 1
             /\ Len(out'.stderr) = 1
             /\ out'.stdout = <<>>
             /\ out'.ops = <<>>
             /\ NothingChanged
       /\ (out'.cmd = "start" /\ wt = "untracked" /\ StartTarget(out'.ref) # 0)
          => /\ "write" \in Range(out'.ops)
             /\ "checkout:ok" \in Range(out'.ops) => out'.exit = 0]_vars

\* A start refused on a dirty tree inside a presentation, whose record and
\* HEAD are as they were.
C11_Witness ==
    /\ out.cmd = "start"
    /\ out.exit = 1
    /\ wt = "modified"
    /\ IsSome(store)
    /\ IsSlide(HeadAt)
    /\ HeadAt = out.from
    /\ stash = 0
    /\ out.ops = <<>>

\* The git calls process o made that stash.
StashCalls(o) ==
    {i \in 1..Len(o.ops) : o.ops[i] \in {"stash:ok", "stash:err"}}

\* The git calls process o made that check out.
CheckoutCalls(o) ==
    {i \in 1..Len(o.ops) : o.ops[i] \in {"checkout:ok", "checkout:err"}}

\* C12, as stated: stop run in a presentation with uncommitted tracked
\* changes attempts a stash before it checks out the original branch or
\* commit, says 'Stashed uncommitted changes.' when the stash succeeds, and
\* still ends with code 0 when it fails.
C12_StopStashesBeforeCheckout ==
    [][(out'.cmd = "stop" /\ IsSome(store) /\ wt = "modified")
       => /\ StashCalls(out') # {}
          /\ \A i \in StashCalls(out'), j \in CheckoutCalls(out') : i < j
          /\ "stash:ok" \in Range(out'.ops)
             => Printed(out', "Stashed uncommitted changes.")
          /\ out'.exit = 0]_vars

\* A stop on a tree with tracked changes that has checked out the branch
\* and removed the record without a stash: the changes are still in the
\* working tree and the stash list is empty.
C12_Witness ==
    /\ out.cmd = "stop"
    /\ out.exit = 0
    /\ out.ops = <<"checkout:ok", "remove">>
    /\ store = None
    /\ IsSome(head.sym)
    /\ wt = "modified"
    /\ stash = 0

\* C13: stop deletes the store file only after its checkout attempt, and
\* deletes it whether that checkout succeeded or failed; after stop the
\* presentation is not in progress, in every case.
C13_StopRemovesRecordAfterCheckout ==
    [][out'.cmd = "stop"
       => /\ store' = None
          /\ IsSome(store)
             => /\ Len(out'.ops) = 2
                /\ out'.ops[1] \in {"checkout:ok", "checkout:err"}
                /\ out'.ops[2] = "remove"
                /\ out'.exit = 0
          /\ store = None => out'.ops = <<>>]_vars

\* A stop whose checkout has failed: HEAD is still detached on the slide,
\* and the record is removed.
C13_Witness ==
    /\ out.cmd = "stop"
    /\ out.ops = <<"checkout:err", "remove">>
    /\ out.exit = 0
    /\ store = None
    /\ head = Detached(out.from)

\* C14, as stated: when the presentation was started from a detached HEAD
\* (empty branch in the record), stop checks out the commit HEAD was on when
\* start ran, also when start was given a ref that resolves to another
\* commit.
C14_StopReturnsToStartCommit ==
    [][(/\ out'.cmd = "stop"
        /\ IsSome(store)
        /\ IsSome(origin)
        /\ Unwrap(origin).head.sym = None
        /\ Unwrap(origin).untouched
        /\ "checkout:ok" \in Range(out'.ops))
       => head' = Detached(Unwrap(origin).head.at)]_vars

\* C14 of a start without a ref: there stop returns to the commit HEAD was
\* on.
C14_StopReturnsToStartCommitWithoutRef ==
    [][(/\ out'.cmd = "stop"
        /\ IsSome(store)
        /\ IsSome(origin)
        /\ Unwrap(origin).head.sym = None
        /\ Unwrap(origin).ref = None
        /\ "checkout:ok" \in Range(out'.ops))
       => head' = Detached(Unwrap(origin).head.at)]_vars

\* A stop, nothing done outside the tool, of a presentation started with a
\* ref from a detached HEAD: HEAD is on another commit than the one it was
\* on when start ran.
C14_Witness ==
    /\ out.cmd = "stop"
    /\ out.exit = 0
    /\ "checkout:ok" \in Range(out.ops)
    /\ IsSome(origin)
    /\ Unwrap(origin).untouched
    /\ Unwrap(origin).head.sym = None
    /\ IsSome(Unwrap(origin).ref)
    /\ head.sym = None
    /\ head.at # Unwrap(origin).head.at

\* The step is a process that printed and returned what `status` does from
\* the same state.
SameAsStatus ==
    \E e \in Env :
        LET s == status(NewCmd, e)
        IN /\ out'.stdout = s.stdout
           /\ out'.stderr = s.stderr
           /\ out'.exit = (IF Alive(s) THEN 0 ELSE s.exit)

\* C15, as stated: the program run with no argument behaves as status when
\* a presentation is in progress (exit 0, the current slide marked) and
\* prints the help text when none is.
C15_NoArgsIsStatusInPresentation ==
    [][out'.cmd = ""
       => /\ NothingChanged
          /\ IsSome(store)
             => /\ SameAsStatus
                /\ IsSlide(HeadAt)
                   => out'.exit = 0 /\ Marked(out') = {K + 1}
          /\ store = None
             => out'.stdout = <<Msg("usage", 0)>> /\ out'.exit = 0]_vars

\* The program run with no argument in a presentation, HEAD on a slide: it
\* has printed the help text and no slide.
C15_Witness ==
    /\ out.cmd = ""
    /\ IsSome(store)
    /\ IsSlide(HeadAt)
    /\ out.stdout = <<Msg("usage", 0)>>
    /\ Marked(out) = {}
    /\ out.exit = 0

\* C16: go is idempotent.  A go(n), n valid, run with HEAD where a go(n) has
\* put it and nothing changed in between, its checkout succeeding as that of
\* the first did, leaves the same deck, the same HEAD and the same current
\* slide, and exits 0.
C16_GoTwiceIsGoOnce ==
    [][(/\ out'.cmd = "go"
        /\ IsSome(store)
        /\ out'.n \in 1..Len(Deck)
        /\ head = Detached(Deck[out'.n])
        /\ "checkout:ok" \in Range(out'.ops))
       => /\ head' = head
          /\ store' = store
          /\ UNCHANGED <<mainLen, sideLen>>
          /\ Marked(out') = {out'.n}
          /\ out'.exit = 0]_vars

\* A go to the slide HEAD is detached on already, in the middle of a deck.
C16_Witness ==
    /\ out.cmd = "go"
    /\ out.n > 1
    /\ out.n < Len(Deck)
    /\ out.from = Deck[out.n]
    /\ head = Detached(Deck[out.n])
    /\ out.ops = <<"rev-list", "checkout:ok">>
    /\ out.exit = 0

(***************************************************************************)
(* Long decks.  The same commands over a single branch of up to MaxDeck    *)
(* commits and a working tree the user leaves alone: a deck long enough    *)
(* for the window of status to be cut at both ends.                        *)
(***************************************************************************)
InitDeck ==
    /\ mainLen \in 1..MaxDeck
    /\ sideLen = 0
    /\ head = OnBranch(Str_main)
    /\ wt = "clean"
    /\ stash = 0
    /\ store = None
    /\ out = NoProcess
    /\ origin = None

NextDeck ==
    \/ Start
    \/ Go
    \/ NextSlide
    \/ PreviousSlide
    \/ Status
    \/ Collect

SpecDeck == InitDeck /\ [][NextDeck]_vars

\* The commands that end by printing the status.
RendersStatus == {"status", "go", "next", "previous", "start"}

\* The process has printed the status of a presentation with HEAD on a slide.
StatusRendered ==
    /\ out.cmd \in RendersStatus
    /\ out.exit = 0
    /\ IsSome(store)
    /\ IsSlide(HeadAt)

\* The slide numbers of the lines of slides process o printed, in order.
SlidesShown(o) ==
    LET lines == SelectSeq(o.stdout,
                           LAMBDA x : x.msg \in {"* slide", "  slide (faint)",
                                                 "  slide"})
    IN [i \in 1..Len(lines) |-> lines[i].n]

\* The slide numbers from..to, in increasing order.
Interval(from, to) == [i \in 1..(to - from + 1) |-> from + i - 1]

\* The 1-indexed current slide, HEAD being on a slide.
P == K + 1

\* C17: for every deck of L >= 1 slides and current 1-indexed slide p,
\* status lists exactly the slides max(1, p - 2) to min(L, p + 3), in
\* increasing order, and marks exactly one of them, slide p, as current.
C17_StatusWindow ==
    StatusRendered
    => /\ SlidesShown(out) = Interval(Max(1, P - 2), Min(Len(Deck), P + 3))
       /\ Marked(out) = {P}
       /\ Cardinality({i \in 1..Len(out.stdout) :
                           out.stdout[i].msg = "* slide"}) = 1

\* A status whose window is cut at both ends: slides are left out before
\* and after it.
C17_Witness ==
    /\ out.cmd = "status"
    /\ StatusRendered
    /\ P - 2 > 1
    /\ P + 3 < Len(Deck)
    /\ SlidesShown(out) = Interval(P - 2, P + 3)

\* C18, as stated: status prints (Start) exactly when the lower bound of
\* the window is slide 1, and (End) exactly when its upper bound is slide
\* L; in a deck of 7 slides with current slide 4 the window is 2..7, (Start)
\* is not printed and (End) is.
C18_MarkersIffWindowTouchesEnds ==
    StatusRendered
    => /\ Printed(out, "(Start)") <=> Max(1, P - 2) = 1
       /\ Printed(out, "(End)") <=> Min(Len(Deck), P + 3) = Len(Deck)
       /\ (Len(Deck) = 7 /\ P = 4)
          => /\ SlidesShown(out) = Interval(2, 7)
             /\ ~Printed(out, "(Start)")
             /\ Printed(out, "(End)")

\* C18, amended: status prints (Start) exactly when the window is cut short
\* at the start, p - 2 < 1, and (End) exactly when it is cut short at the
\* end, p + 3 > L; a window that reaches slide 1 or slide L in full (p = 3,
\* p = L - 3) has no marker there; in a deck of 7 slides with current slide
\* 4 the window is 2..7 and neither marker is printed.
C18_MarkersIffWindowCutShort ==
    StatusRendered
    => /\ Printed(out, "(Start)") <=> P - 2 < 1
       /\ Printed(out, "(End)") <=> P + 3 > Len(Deck)
       /\ (Len(Deck) = 7 /\ P = 4)
          => /\ SlidesShown(out) = Interval(2, 7)
             /\ ~Printed(out, "(Start)")
             /\ ~Printed(out, "(End)")

\* The status of slide 4 of a deck of 7: slides 2..7, the last slide shown,
\* and no marker.
C18_Witness ==
    /\ out.cmd = "status"
    /\ StatusRendered
    /\ Len(Deck) = 7
    /\ P = 4
    /\ SlidesShown(out) = Interval(2, 7)
    /\ ~Printed(out, "(Start)")
    /\ ~Printed(out, "(End)")

\* C19: go(n), n in range, stashes if and only if the working tree has
\* tracked uncommitted changes, does so before the checkout, and a stash that
\* fails does not abort the command: the checkout of slide n is still
\* attempted.
C19_GoStashesDirtyTreeFirst ==
    [][(out'.cmd = "go" /\ IsSome(store) /\ out'.n \in 1..Len(Deck))
       => /\ StashCalls(out') # {} <=> wt = "modified"
          /\ Cardinality(StashCalls(out')) <= 1
          /\ Cardinality(CheckoutCalls(out')) = 1
          /\ \A i \in StashCalls(out'), j \in CheckoutCalls(out') : i < j
          /\ "stash:ok" \in Range(out'.ops)
             => /\ stash' = stash + 1
                /\ wt' = "clean"
                /\ Printed(out', "Stashed uncommitted changes.")
          /\ "stash:ok" \notin Range(out'.ops)
             => stash' = stash /\ wt' = wt
          /\ "checkout:ok" \in Range(out'.ops)
             => head' = Detached(Deck[out'.n])]_vars

\* A go on a tree with tracked changes whose stash has failed and whose
\* checkout was made all the same.
C19_Witness ==
    /\ out.cmd = "go"
    /\ out.ops = <<"rev-list", "stash:err", "checkout:ok">>
    /\ out.exit = 0
    /\ wt = "modified"
    /\ stash = 0
    /\ Len(Deck) > 1
    /\ HeadAt = Deck[out.n]
    /\ HeadAt # out.from

\* The times process o asked git for the first-parent history.
HistoryCalls(o) == Cardinality({i \in 1..Len(o.ops) : o.ops[i] = "rev-list"})

\* C20: within one command execution (start included, which runs go(1) and
\* then status in the same process) the first-parent history is asked of
\* git at most once; every later lookup of the deck in that execution reads
\* the memoized result.
C20_HistoryListedAtMostOnce ==
    /\ HistoryCalls(out) <= 1
    /\ (out.cmd \in RendersStatus /\ out.exit = 0) => HistoryCalls(out) = 1

\* A next that has looked the deck up four times (its own get_commits and
\* current index, get_commits in go, the history and current index in
\* status) and has asked git once.
C20_Witness ==
    /\ out.cmd = "next"
    /\ out.n = 1
    /\ out.exit = 0
    /\ HistoryCalls(out) = 1
    /\ out.ops = <<"rev-list", "checkout:ok">>
    /\ Marked(out) = {IndexOf(out.from) + 2}

\* A process reading the store file with content s.
Reading(s) == [NewCmd EXCEPT !.store = s]

\* The step is a `start` that passes its checks.
StartAccepted ==
    /\ out'.cmd = "start"
    /\ wt # "modified"
    /\ StartTarget(out'.ref) # 0

\* C21: a start that passes its checks writes a session record holding the
\* branch current at that moment (empty when HEAD is detached) and the
\* resolved target commit, replacing any previous record, and writes it
\* before it performs go(1): the write is the first thing the process does,
\* before the history is listed and the checkout is made.
C21_StartWritesRecordFirst ==
    [][StartAccepted
       => /\ Len(out'.ops) >= 2
          /\ out'.ops[1] = "write"
          /\ \A i \in 2..Len(out'.ops) : out'.ops[i] # "write"
          /\ store' = Some(FormatStore(IF IsSome(head.sym)
                                       THEN Unwrap(head.sym)
                                       ELSE <<>>,
                                       Hash(StartTarget(out'.ref))))
          /\ get_initial_branch(Reading(store')) = head.sym
          /\ get_presentation_head_commit(Reading(store'))
             = Hash(StartTarget(out'.ref))
          /\ out'.stdout[1] = Msg("Presentation started at", 0)]_vars

\* A start with a ref, run on a detached HEAD: the record has an empty
\* branch and the commit of the ref, the deck is that of the ref, and the write
\* came before the listing and the checkout.
C21_Witness ==
    /\ out.cmd = "start"
    /\ out.exit = 0
    /\ IsSome(out.ref)
    /\ out.ops = <<"write", "rev-list", "checkout:ok">>
    /\ IsSome(origin)
    /\ Unwrap(origin).head.sym = None
    /\ get_initial_branch(NewCmd) = None
    /\ Len(Deck) > 1
    /\ ~IsSlide(out.from)
    /\ HeadAt = Deck[1]

\* C22: status and list are read-only in every state: whether they succeed
\* or fail, HEAD, the session record, the working tree and the stash are the
\* same after the command as before it; the only git command they run that is
\* not a query of HEAD is the listing of the history.
C22_StatusAndListReadOnly ==
    [][out'.cmd \in {"status", "list"}
       => /\ NothingChanged
          /\ Range(out'.ops) \subseteq {"rev-list"}
          /\ out'.exit \in {0, 1}]_vars

\* A status that has succeeded on a working tree with tracked changes, in the
\* middle of a deck: the changes are still there and nothing is stashed.
C22_Witness ==
    /\ out.cmd = "status"
    /\ out.exit = 0
    /\ wt = "modified"
    /\ stash = 0
    /\ IsSome(store)
    /\ Len(Deck) > 2
    /\ HeadAt = out.from
    /\ HeadAt = Deck[2]
    /\ Marked(out) = {2}

\* C23: a next that lands exactly on the last slide without being clamped
\* (1-indexed current slide p, p + offset = L) prints the end notice, and a
\* next that lands before the last slide prints none: of a next whose
\* checkout is made, the notice is printed iff the resulting slide is the
\* last one.
C23_EndNoticeIffLandsOnLast ==
    [][NextFromSlide
       => /\ Unclamped = Len(Deck) => Printed(out', EndNotice)
          /\ Unclamped < Len(Deck) => ~Printed(out', EndNotice)
          /\ "checkout:ok" \in Range(out'.ops)
             => /\ IsSlide(HeadCommit(head', mainLen, sideLen))
                /\ Printed(out', EndNotice)
                   <=> head' = Detached(Deck[Len(Deck)])]_vars

\* A next of two slides that has landed exactly on the last slide, not
\* clamped, and printed the notice.
C23_Witness ==
    /\ out.cmd = "next"
    /\ out.n = 2
    /\ out.exit = 0
    /\ Len(Deck) > 2
    /\ out.from = Deck[Len(Deck) - 2]
    /\ HeadAt = Deck[Len(Deck)]
    /\ Printed(out, EndNotice)
    /\ Marked(out) = {Len(Deck)}

\* C24: status prints (Start) if and only if fewer than 2 slides precede the
\* current slide (1-indexed p <= 2) and prints (End) if and only if fewer
\* than 3 slides follow it (p + 3 > L); in a deck of 7 slides, slide 3 shows
\* slide 1 without (Start) and slide 4 shows slide 7 without (End).
C24_MarkersIffFewSlidesBeyond ==
    StatusRendered
    => /\ Printed(out, "(Start)") <=> P - 1 < SHOW_N_PREVIOUS
       /\ Printed(out, "(Start)") <=> P <= 2
       /\ Printed(out, "(End)") <=> Len(Deck) - P < SHOW_N_NEXT
       /\ Printed(out, "(End)") => out.stdout[Len(out.stdout)] = Msg("(End)", 0)
       /\ (Len(Deck) = 7 /\ P = 3)
          => /\ 1 \in Range(SlidesShown(out))
             /\ ~Printed(out, "(Start)")
       /\ (Len(Deck) = 7 /\ P = 4)
          => /\ 7 \in Range(SlidesShown(out))
             /\ ~Printed(out, "(End)")

\* The status of slide 3 of a deck of 7, reached by next: slide 1 is shown
\* and (Start) is not.
C24_Witness ==
    /\ out.cmd = "next"
    /\ StatusRendered
    /\ Len(Deck) = 7
    /\ P = 3
    /\ SlidesShown(out) = Interval(1, 6)
    /\ ~Printed(out, "(Start)")
    /\ ~Printed(out, "(End)")

\* C25: if the checkout performed by go(n) fails, the command exits with
\* code 1 without rendering status, the session record is left exactly as
\* it was and the session stays active; a stash taken earlier in the same
\* command is not undone.  The same holds of the go that next and previous
\* end with.
C25_FailedCheckoutKeepsSession ==
    [][(/\ out'.cmd \in {"go", "next", "previous"}
        /\ "checkout:err" \in Range(out'.ops))
       => /\ out'.exit = 1
          /\ SlidesShown(out') = <<>>
          /\ ~Printed(out', "(Start)") /\ ~Printed(out', "(End)")
          /\ out'.stderr[Len(out'.stderr)] = Msg("error: Could not checkout.", 0)
          /\ store' = store
          /\ IsSome(store')
          /\ head' = head
          /\ "stash:ok" \in Range(out'.ops)
             => stash' = stash + 1 /\ wt' = "clean"
          /\ "stash:ok" \notin Range(out'.ops)
             => stash' = stash /\ wt' = wt]_vars

\* A go to another slide, on a tree with tracked changes, whose stash was
\* made and whose checkout has failed: HEAD is where it was, the record is
\* there, and the changes are in the stash.
C25_Witness ==
    /\ out.cmd = "go"
    /\ out.ops = <<"rev-list", "stash:ok", "checkout:err">>
    /\ out.exit = 1
    /\ IsSome(store)
    /\ out.n \in 1..Len(Deck)
    /\ HeadAt = out.from
    /\ HeadAt # Deck[out.n]
    /\ stash = 1
    /\ wt = "clean"

\* The deck of the presentation in progress after the step.
DeckAfter ==
    IF IsSome(store')
    THEN RevList(CommitOfHash(get_presentation_head_commit(Reading(store')),
                              mainLen', sideLen'), mainLen')
    ELSE <<>>

\* The commands that move in or show the presentation.
Navigation == {"go", "next", "previous", "status", "list"}

\* C26: the session record is created only by start and removed only by
\* stop: go, next, previous, status and list never create, modify or
\* delete it, so the recorded origin branch and target commit, and hence the
\* deck, are the same after each of them as before.
C26_RecordOnlyStartAndStop ==
    [][/\ out'.cmd \in Navigation
          => /\ store' = store
             /\ DeckAfter = Deck
             /\ "write" \notin Range(out'.ops)
             /\ "remove" \notin Range(out'.ops)
       /\ (store = None /\ store' # None) => out'.cmd = "start"
       /\ (store # None /\ store' = None) => out'.cmd = "stop"
       /\ store' # store => out'.cmd \in {"start", "stop"}]_vars

\* A next that has moved HEAD to another slide of a presentation started on
\* a branch: the record still names that branch and the last slide of the
\* deck.
C26_Witness ==
    /\ out.cmd = "next"
    /\ out.exit = 0
    /\ IsSome(store)
    /\ IsSome(origin)
    /\ Unwrap(origin).untouched
    /\ IsSome(Unwrap(origin).head.sym)
    /\ get_initial_branch(NewCmd) = Unwrap(origin).head.sym
    /\ get_presentation_head_commit(NewCmd) = Hash(Deck[Len(Deck)])
    /\ HeadAt # out.from
    /\ IsSlide(HeadAt)

\* C27: when the history listing yields an empty deck in a presentation in
\* progress, every command that reads the deck ends with exit code 1 and
\* never reaches an out-of-bounds index or the unsigned underflow of
\* `history.len() - 1`: go(n) reports a bad index for every n, and next,
\* previous, status and list stop at 'Current HEAD not part of
\* presentation'.
C27_EmptyDeckIsRefused ==
    [][(out'.cmd \in Navigation /\ IsSome(store) /\ Deck = <<>>)
       => /\ out'.exit = 1
          /\ out'.stdout = <<>>
          /\ out'.ops = <<"rev-list">>
          /\ out'.cmd = "go"
             => out'.stderr = <<Msg("error: Bad slide index.", out'.n),
                                Msg("Possible values range from 1 to", 0)>>
          /\ out'.cmd \in NeedsPosition
             => out'.stderr = <<Msg(NotInDeck, 0)>>
          /\ NothingChanged]_vars

\* A go(1) refused in a presentation whose recorded commit is no longer in
\* the repository: the deck is empty and the range reported is 1 to 0.
C27_Witness ==
    /\ out.cmd = "go"
    /\ out.n = 1
    /\ IsSome(store)
    /\ Deck = <<>>
    /\ HeadAt # 0
    /\ out.exit = 1
    /\ out.stderr = <<Msg("error: Bad slide index.", 1),
                      Msg("Possible values range from 1 to", 0)>>

\* C28, as stated: for every offset the command line accepts (any usize, up
\* to the maximum), next computes its target without wraparound and lands
\* on slide min(p + offset, L): it attempts the checkout of that slide,
\* neither panicking nor reporting a bad slide index, and an offset large
\* enough to overflow `index + 1 + offset` still clamps to the last slide.
C28_NextClampsEveryOffset ==
    [][NextFromSlide
       => /\ out'.exit # PanicCode
          /\ \A i \in 1..Len(out'.stderr) :
                 out'.stderr[i].msg # "error: Bad slide index."
          /\ Cardinality(CheckoutCalls(out')) = 1
          /\ "checkout:ok" \in Range(out'.ops)
             => head' = Detached(Deck[Min(P + out'.n, Len(Deck))])
          /\ Unclamped > UsizeMax => Printed(out', EndNotice)]_vars

\* A next with offset usize::MAX, built with overflow checks: the process
\* has panicked on the addition, after listing the history and before any
\* checkout, and HEAD is where it was.
C28_Witness ==
    /\ out.cmd = "next"
    /\ out.n = UsizeMax
    /\ out.exit = PanicCode
    /\ out.ops = <<"rev-list">>
    /\ out.stderr = <<Msg("attempt to add with overflow", 0)>>
    /\ IsSome(store)
    /\ IsSlide(HeadAt)
    /\ HeadAt = out.from
    /\ Len(Deck) > 1

\* The commands that move HEAD to a slide.
Moves == {"start", "go", "next", "previous"}

\* The position the program derives for HEAD in the current state:
\* Option<0-based index>.
DerivedIndex ==
    get_index_of_current_commit_checked(
        NewCmd, [checkout |-> TRUE, stash |-> TRUE, overflow_checks |-> TRUE]).ret

\* `status` run in the current state succeeds and marks slide p.
StatusSucceeds(p) ==
    \A e \in Env :
        LET Ok(s) == Alive(s) /\ s.stderr = <<>> /\ StatusLine(p - 1, p - 1) \in Range(s.stdout)
        IN Ok(status(NewCmd, e))

\* `list` run in the current state succeeds, lists the L slides and marks
\* slide p.
ListSucceeds(p) ==
    \A e \in Env :
        LET Ok(s) == /\ Alive(s)
                     /\ s.stderr = <<>>
                     /\ s.stdout = [i \in 1..Len(Deck) |-> ListLine(i - 1, p - 1)]
        IN Ok(list(NewCmd, e))

\* C29: in a presentation in progress, after any sequence of start, go, next
\* and previous commands that each exit 0, so after the last of them and
\* with no checkout made outside the tool since, HEAD is a slide of the
\* deck and the derived 1-indexed position p satisfies 1 <= p <= L, so
\* status and list succeed.
C29_AfterMovesHeadIsOnSlide ==
    (out.cmd \in Moves /\ out.exit = 0)
    => /\ IsSome(store)
       /\ IsSlide(HeadAt)
       /\ IsSome(DerivedIndex)
       /\ Unwrap(DerivedIndex) + 1 \in 1..Len(Deck)
       /\ Unwrap(DerivedIndex) = K
       /\ StatusSucceeds(P)
       /\ ListSucceeds(P)

\* A previous that has succeeded after other moves, on the last slide but
\* one of a deck of several slides: status and list succeed there.
C29_Witness ==
    /\ out.cmd = "previous"
    /\ out.n = 1
    /\ out.exit = 0
    /\ Len(Deck) > 2
    /\ IsSlide(out.from)
    /\ out.from = Deck[Len(Deck)]
    /\ HeadAt = Deck[Len(Deck) - 1]
    /\ StatusSucceeds(Len(Deck) - 1)
    /\ ListSucceeds(Len(Deck) - 1)

\* A process started against the repository as the step leaves it.
After ==
    [NewCmd EXCEPT !.head = head', !.wt = wt', !.stash = stash',
                   !.store = store']

\* next, previous, status and list, run after the step with their checkout
\* succeeding, end without an error.
NavigationWorksAfter ==
    \A e \in {x \in Env : x.checkout} :
        LET Ok(s) == Alive(s) /\ s.exit # 1 /\ s.stderr \in {<<>>,
                         <<Msg("error: Could not stash uncommitted changes.", 0)>>}
        IN /\ Ok(status(After, e))
           /\ Ok(list(After, e))
           /\ Ok(next(After, 1, e))
           /\ Ok(previous(After, 1, e))

\* C30: go(n) does not require a resolvable current position: in a
\* presentation where HEAD is outside the deck, go(n) with 1 <= n <= L
\* attempts its checkout without asking for the position and, the checkout
\* made, succeeds, puts HEAD on slide n and renders status, which restores
\* a state in which next, previous, status and list work again.
C30_GoFromOutsideTheDeck ==
    [][(/\ out'.cmd = "go"
        /\ IsSome(store)
        /\ ~IsSlide(HeadAt)
        /\ out'.n \in 1..Len(Deck))
       => /\ Cardinality(CheckoutCalls(out')) = 1
          /\ \A i \in 1..Len(out'.stderr) : out'.stderr[i].msg # NotInDeck
          /\ "checkout:ok" \in Range(out'.ops)
             => /\ out'.exit = 0
                /\ head' = Detached(Deck[out'.n])
                /\ Marked(out') = {out'.n}
                /\ NavigationWorksAfter]_vars

\* A go that has brought HEAD from a commit outside the deck to a slide in
\* the middle of it.
C30_Witness ==
    /\ out.cmd = "go"
    /\ out.exit = 0
    /\ IsSome(store)
    /\ out.from # 0
    /\ ~IsSlide(out.from)
    /\ Len(Deck) > 2
    /\ out.n = 2
    /\ HeadAt = Deck[2]
    /\ Marked(out) = {2}

\* The step is a `start` that passes its checks, run in a presentation with
\* HEAD detached on a slide.
Restart ==
    /\ StartAccepted
    /\ IsSome(store)
    /\ head.sym = None
    /\ IsSlide(HeadAt)

\* The `stop` that follows the step, its checkout succeeding, leaves HEAD
\* detached on commit c and on no branch, and removes the record.
StopAfterGoesTo(c) ==
    \A e \in {x \in Env : x.checkout} :
        LET Lands(s) == /\ s.head = Detached(c)
                        /\ \A b \in BranchNames : s.head # OnBranch(b)
                        /\ s.store = None
                        /\ "checkout:ok" \in Range(s.ops)
        IN Lands(stop(After, e))

\* C31: a start run while a presentation is in progress (HEAD detached on a
\* slide) overwrites the record with an empty origin branch, so the stop
\* that follows checks out the new target commit and not the branch that
\* was current when the first presentation was started: the original branch
\* is lost from the record.
C31_RestartLosesOriginBranch ==
    [][Restart
       => /\ store' # store \/ get_initial_branch(NewCmd) = None
          /\ get_initial_branch(Reading(store')) = None
          /\ get_presentation_head_commit(Reading(store'))
             = Hash(StartTarget(out'.ref))
          /\ StopAfterGoesTo(StartTarget(out'.ref))]_vars

\* A start with a ref that has succeeded inside a presentation: the record
\* names no branch, and a stop run now leaves HEAD detached on the last
\* slide of the new deck.
C31_Witness ==
    /\ out.cmd = "start"
    /\ out.started
    /\ out.exit = 0
    /\ IsSome(out.ref)
    /\ IsSome(origin)
    /\ Unwrap(origin).head.sym = None
    /\ get_initial_branch(NewCmd) = None
    /\ Len(Deck) > 1
    /\ HeadAt = Deck[1]
    /\ stop(NewCmd, [checkout |-> TRUE, stash |-> TRUE,
                     overflow_checks |-> TRUE]).head
       = Detached(Deck[Len(Deck)])

\* C32: if the checkout of slide 1 inside start fails, start exits with code
\* 1 but the record it has already written remains, so a presentation is in
\* progress with HEAD still where it was before the start; a failed start is
\* not free of changes in this case.
C32_FailedStartLeavesRecord ==
    [][(StartAccepted /\ "checkout:err" \in Range(out'.ops))
       => /\ out'.exit = 1
          /\ out'.ops = <<"write", "rev-list", "checkout:err">>
          /\ SlidesShown(out') = <<>>
          /\ IsSome(store')
          /\ get_presentation_head_commit(Reading(store'))
             = Hash(StartTarget(out'.ref))
          /\ store = None => store' # store
          /\ head' = head
          /\ wt' = wt
          /\ stash' = stash
          /\ is_presentation_started(After)]_vars

\* A start, no presentation being in progress, whose checkout of slide 1 has
\* failed: the process has exited 1, the record is there and HEAD is on the
\* branch, at the last slide.
C32_Witness ==
    /\ out.cmd = "start"
    /\ ~out.started
    /\ out.exit = 1
    /\ out.ops = <<"write", "rev-list", "checkout:err">>
    /\ IsSome(store)
    /\ IsSome(head.sym)
    /\ HeadAt = out.from
    /\ Len(Deck) > 1
    /\ HeadAt = Deck[Len(Deck)]

\* The next process, started against the repository as process p left it.
Fresh(p) ==
    [p EXCEPT !.history = None, !.exit = Running,
              !.stdout = <<>>, !.stderr = <<>>, !.ops = <<>>]

\* The repository after `next offset` has been run k times in a row, each a
\* process of its own.
RECURSIVE RepeatNext(_, _, _, _)
RepeatNext(p, offset, k, e) ==
    IF k = 0 THEN p
    ELSE RepeatNext(Fresh(next(Fresh(p), offset, e)), offset, k - 1, e)

\* The same of `previous offset`.
RECURSIVE RepeatPrevious(_, _, _, _)
RepeatPrevious(p, offset, k, e) ==
    IF k = 0 THEN p
    ELSE RepeatPrevious(Fresh(previous(Fresh(p), offset, e)), offset, k - 1, e)

\* The commit HEAD is on in process p.
HeadOf(p) == HeadCommit(p.head, mainLen, sideLen)

\* Between two commands, in a presentation with HEAD on a slide.
OnSlide == Idle /\ IsSome(store) /\ IsSlide(HeadAt)

\* The environments whose checkouts all succeed.
CheckoutsSucceed == {e \in Env : e.checkout}

\* From the current state, next(offset) repeated L - p times has reached
\* the last slide, and one more next stays there.
NextReachesEnd(offset) ==
    \A e \in CheckoutsSucceed :
        /\ HeadOf(RepeatNext(NewCmd, offset, Len(Deck) - P, e))
           = Deck[Len(Deck)]
        /\ HeadOf(RepeatNext(NewCmd, offset, Len(Deck) - P + 1, e))
           = Deck[Len(Deck)]

\* From the current state, previous(offset) repeated p - 1 times has reached
\* slide 1, and one more previous stays there.
PreviousReachesStart(offset) ==
    \A e \in CheckoutsSucceed :
        /\ HeadOf(RepeatPrevious(NewCmd, offset, P - 1, e)) = Deck[1]
        /\ HeadOf(RepeatPrevious(NewCmd, offset, P, e)) = Deck[1]

\* C33, as stated: in a presentation with all checkouts succeeding,
\* repeating next (offset >= 1) from any slide p reaches the last slide
\* after at most L - p invocations and every further next stays on the last
\* slide; symmetrically, repeating previous reaches slide 1 after at most
\* p - 1 invocations and stays there.
C33_RepeatedMovesReachTheEnds ==
    OnSlide
    => \A offset \in Offsets \ {0} :
           NextReachesEnd(offset) /\ PreviousReachesStart(offset)

\* C33 for the offsets whose sum with the position fits a usize, and of
\* previous for every offset.
C33_RepeatedMovesReachTheEndsWithoutOverflow ==
    OnSlide
    => \A offset \in Offsets \ {0} :
           /\ ~MayOverflow(offset) => NextReachesEnd(offset)
           /\ PreviousReachesStart(offset)

\* A next with offset usize::MAX, built without overflow checks, run on
\* slide 1 of a deck of several slides: the sum has wrapped to 0, go(0) was
\* refused, and HEAD is still on slide 1.
C33_Witness ==
    /\ out.cmd = "next"
    /\ out.n = UsizeMax
    /\ out.exit = 1
    /\ out.stderr[1] = Msg("error: Bad slide index.", 0)
    /\ out.ops = <<"rev-list">>
    /\ Len(Deck) > 1
    /\ out.from = Deck[1]
    /\ HeadAt = Deck[1]

\* Process s has ended with code 0 and HEAD on the p-th slide.
LandedOn(s, p) == Alive(s) /\ HeadOf(s) = Deck[p]

\* next(j) and then previous(j), each in a process of its own, from the
\* current state: the first lands on slide p + j, the second on slide p.
NextThenPrevious(j) ==
    \A e1 \in CheckoutsSucceed, e2 \in CheckoutsSucceed :
        LET Back(s) == /\ LandedOn(s, P + j)
                       /\ LandedOn(previous(Fresh(s), j, e2), P)
        IN Back(next(NewCmd, j, e1))

\* previous(j) and then next(j): the first lands on slide p - j, the second
\* on slide p.
PreviousThenNext(j) ==
    \A e1 \in CheckoutsSucceed, e2 \in CheckoutsSucceed :
        LET Forth(s) == /\ LandedOn(s, P - j)
                        /\ LandedOn(next(Fresh(s), j, e2), P)
        IN Forth(previous(NewCmd, j, e1))

\* C34: next and previous are inverse when no clamping occurs: from
\* 1-indexed slide p, next(j) followed by previous(j) returns to slide p
\* whenever p + j <= L, and previous(j) followed by next(j) returns to
\* slide p whenever p - j >= 1.
C34_NextAndPreviousAreInverse ==
    OnSlide
    => \A j \in Offsets :
           /\ P + j <= Len(Deck) => NextThenPrevious(j)
           /\ P - j >= 1 => PreviousThenNext(j)

\* A previous of two slides that has gone from slide 3 to slide 1, neither
\* clamped: the next of two slides run now goes back to slide 3.
C34_Witness ==
    /\ out.cmd = "previous"
    /\ out.n = 2
    /\ out.exit = 0
    /\ IsSome(store)
    /\ Len(Deck) > 3
    /\ out.from = Deck[3]
    /\ HeadAt = Deck[1]
    /\ \A e \in CheckoutsSucceed : LandedOn(next(NewCmd, 2, e), 3)

=============================================================================
